---- MODULE Spec2Model ----
(***************************************************************************)
(* Job-posting endpoints of src/app/api/endpoints/jobs.py: the five CRUD   *)
(* handlers over JobPosting rows that reference Company rows, the          *)
(* description-generation handler that streams a function-call payload     *)
(* from the external API, and the request-scoped database session.         *)
(*                                                                         *)
(* One request is in flight at a time (the module shares no state between  *)
(* requests).  A request acquires its session, runs its handler, and       *)
(* releases the session.  The CRUD handlers are one step each; the         *)
(* generation handler is one step per statement group that can fail.       *)
(***************************************************************************)
EXTENDS Integers, Sequences, FiniteSets, TLC

(***************************************************************************)
(* Optional values: Python's None and a present value.                     *)
(***************************************************************************)
None == <<>>
Some(v) == <<v>>

(***************************************************************************)
(* Bounds and input sets.                                                  *)
(***************************************************************************)
MaxChunks == 3
MaxSkip == 2
DefaultLimit == 100

JobIds == {1, 2}
\* ids a request may name: the ids the store assigns, and one it never does
RequestJobIds == JobIds \cup {999}

\* the Company rows (this module never adds or removes one), and the ids a
\* request may name: theirs, and one of no company
Companies == {1, 2}
RequestCompanyIds == Companies \cup {3}
Titles == {"Driver", "Pilot"}
\* description texts a request body may carry
Texts == {"A"}
ToolLists == {<<>>, <<"forklift", "GPS">>}

Fields == {"title", "description", "company_id"}
OptTexts == {None} \cup {Some(t) : t \in Texts}
OptCompanyIds == {None} \cup {Some(c) : c \in RequestCompanyIds}

\* JobPostingCreate: every field of a new posting; company_id is required.
JobPostingCreate ==
    [title : {Some(t) : t \in Titles},
     description : OptTexts,
     company_id : {Some(c) : c \in RequestCompanyIds}]

\* JobPostingUpdate: every field optional.  fields_set holds the names the
\* body carries explicitly; a field the body does not carry reads as None.
JobPostingUpdate ==
    {b \in [fields_set : SUBSET Fields,
            title : {None} \cup {Some(t) : t \in Titles},
            description : OptTexts,
            company_id : OptCompanyIds] :
        /\ \A f \in Fields \ b.fields_set : b[f] = None
        /\ "title" \in b.fields_set => b.title # None}

VARIABLES
    jobs,                 \* the persisted JobPosting rows, by id
    company_id_nullable,  \* whether the company_id column accepts NULL
    pc,                   \* where the request in flight stands
    session_open,         \* the request's database session is open
    req,                  \* the request the handler was called with
    resp,                 \* the response, or None
    job,                  \* generation: id of the posting the session loaded
    prompt,               \* generation: the prompt built for the call
    full_description,     \* generation: the accumulated argument buffer
    description,          \* generation: the parsed description
    chunks,               \* history: the chunks the stream delivered, in order
    called,               \* history: the external API was invoked
    error,                \* history: the exception raised in the handler
    jobs0,                \* history: the rows when the request started
    deleted               \* history: ids deleted with no create since

vars == <<jobs, company_id_nullable, pc, session_open, req, resp, job, prompt,
          full_description, description, chunks, called, error, jobs0, deleted>>

gen_vars == <<job, prompt, full_description, description, chunks, called>>

(***************************************************************************)
(* Responses.                                                              *)
(***************************************************************************)
NoRequest == [kind |-> "none"]
NoResponse == [status |-> 0, detail |-> <<>>, body |-> None, uncaught |-> FALSE]
NoError == [step |-> "none", text |-> ""]

Ok(body) == [status |-> 200, detail |-> <<>>, body |-> body, uncaught |-> FALSE]

HTTPException(status_code, detail) ==
    [status |-> status_code, detail |-> detail, body |-> None, uncaught |-> FALSE]

\* an exception no handler catches: the framework answers, not this module
Unhandled ==
    [status |-> 500, detail |-> <<"Internal Server Error">>, body |-> None,
     uncaught |-> TRUE]

(***************************************************************************)
(* The store.                                                              *)
(***************************************************************************)
\* the row as the response schema serialises it
JobPostingSchema(id, row) ==
    [id |-> id, title |-> row.title, description |-> row.description,
     company_id |-> row.company_id]

\* db.add(row) under a store-assigned id
WithRow(rows, id, row) ==
    [i \in DOMAIN rows \cup {id} |-> IF i = id THEN row ELSE rows[i]]

\* mutant of WithoutRow: the row is never marked for deletion
WithoutRowKept(rows, id) == rows

\* db.delete(row)
WithoutRow(rows, id) == [i \in DOMAIN rows \ {id} |-> rows[i]]

\* Company.id == company_id, first(): the company, or None
CompanyOf(company_id) ==
    IF company_id # None /\ company_id[1] \in Companies THEN company_id ELSE None

\* the column constraints the store checks at commit
ConstraintsHold(rows) ==
    \A i \in DOMAIN rows : rows[i].company_id = None => company_id_nullable

\* what db.commit() followed by db.refresh() can do with the pending rows:
\* both succeed, the commit raises (nothing is persisted), or the commit
\* succeeds and the refresh raises
CommitRefresh(rows) ==
    IF ConstraintsHold(rows) THEN {"ok", "commit_error", "refresh_error"}
    ELSE {"commit_error"}

\* what db.commit() alone can do
Commit(rows) == IF ConstraintsHold(rows) THEN {"ok", "commit_error"} ELSE {"commit_error"}

\* the ids of the rows in the store's default order
RECURSIVE Ordered(_)
Ordered(S) ==
    IF S = {} THEN <<>>
    ELSE LET m == CHOOSE x \in S : \A y \in S : x <= y
         IN <<m>> \o Ordered(S \ {m})

\* query.offset(skip).limit(limit).all()
OffsetLimit(s, skip, limit) ==
    LET rest == SubSeq(s, skip + 1, Len(s))
    IN SubSeq(rest, 1, IF limit < Len(rest) THEN limit ELSE Len(rest))

(***************************************************************************)
(* The request-scoped session.                                             *)
(***************************************************************************)
Init ==
    /\ jobs = <<>>
    /\ company_id_nullable \in BOOLEAN
    /\ pc = "idle"
    /\ session_open = FALSE
    /\ req = NoRequest
    /\ resp = NoResponse
    /\ job = None
    /\ prompt = None
    /\ full_description = <<>>
    /\ description = None
    /\ chunks = <<>>
    /\ called = FALSE
    /\ error = NoError
    /\ jobs0 = <<>>
    /\ deleted = {}

\* get_db_session up to its yield: the session is handed to the handler
Acquire ==
    /\ pc = "idle"
    /\ pc' = "open"
    /\ session_open' = TRUE
    /\ jobs0' = jobs
    /\ UNCHANGED <<jobs, company_id_nullable, req, resp, error, deleted>>
    /\ UNCHANGED gen_vars

\* mutant of Release: db.close() after the yield without try/finally, so it
\* runs only when the handler returned
ReleaseOnSuccess ==
    /\ pc = "exit"
    /\ pc' = "idle"
    /\ session_open' = (resp.status # 200)
    /\ req' = NoRequest
    /\ resp' = NoResponse
    /\ error' = NoError
    /\ job' = None
    /\ prompt' = None
    /\ full_description' = <<>>
    /\ description' = None
    /\ chunks' = <<>>
    /\ called' = FALSE
    /\ jobs0' = jobs
    /\ UNCHANGED <<jobs, company_id_nullable, deleted>>

\* get_db_session's finally: whatever the handler did, db.close()
Release ==
    /\ pc = "exit"
    /\ pc' = "idle"
    /\ session_open' = FALSE
    /\ req' = NoRequest
    /\ resp' = NoResponse
    /\ error' = NoError
    /\ job' = None
    /\ prompt' = None
    /\ full_description' = <<>>
    /\ description' = None
    /\ chunks' = <<>>
    /\ called' = FALSE
    /\ jobs0' = jobs
    /\ UNCHANGED <<jobs, company_id_nullable, deleted>>

\* the handler ends: it returns r, or raises
Finish(r, e) ==
    /\ pc' = "exit"
    /\ resp' = r
    /\ error' = e

(***************************************************************************)
(* Job CRUD endpoints.                                                     *)
(***************************************************************************)
\* mutant of create_job_posting: the row is added and committed before the
\* company is looked up
create_job_posting_add_first(body) ==
    /\ pc = "open"
    /\ req' = [kind |-> "create", body |-> body]
    /\ UNCHANGED <<company_id_nullable, session_open, jobs0>>
    /\ UNCHANGED gen_vars
    /\ \E id \in JobIds \ DOMAIN jobs :
          /\ jobs' = WithRow(jobs, id, body)
          /\ deleted' = {}
          /\ IF CompanyOf(body.company_id) = None
             THEN Finish(HTTPException(404, <<"Company not found">>), NoError)
             ELSE Finish(Ok(JobPostingSchema(id, body)), NoError)

create_job_posting(body) ==
    /\ pc = "open"
    /\ req' = [kind |-> "create", body |-> body]
    /\ UNCHANGED <<company_id_nullable, session_open, jobs0>>
    /\ UNCHANGED gen_vars
    /\ IF CompanyOf(body.company_id) = None
       THEN /\ Finish(HTTPException(404, <<"Company not found">>), NoError)
            /\ UNCHANGED <<jobs, deleted>>
       ELSE \E id \in JobIds \ DOMAIN jobs :
            LET rows == WithRow(jobs, id, body)
            IN \E outcome \in CommitRefresh(rows) :
                  \/ /\ outcome = "ok"
                     /\ jobs' = rows
                     /\ deleted' = {}
                     /\ Finish(Ok(JobPostingSchema(id, body)), NoError)
                  \/ /\ outcome = "commit_error"
                     /\ UNCHANGED <<jobs, deleted>>
                     /\ Finish(Unhandled, [step |-> "commit", text |-> "OperationalError"])
                  \/ /\ outcome = "refresh_error"
                     /\ jobs' = rows
                     /\ deleted' = {}
                     /\ Finish(Unhandled, [step |-> "refresh", text |-> "OperationalError"])

read_job_postings(skip, limit) ==
    /\ pc = "open"
    /\ req' = [kind |-> "list", skip |-> skip, limit |-> limit]
    /\ LET ids == OffsetLimit(Ordered(DOMAIN jobs), skip, limit)
       IN Finish(Ok([i \in DOMAIN ids |-> JobPostingSchema(ids[i], jobs[ids[i]])]),
                 NoError)
    /\ UNCHANGED <<jobs, company_id_nullable, session_open, jobs0, deleted>>
    /\ UNCHANGED gen_vars

read_job_posting(job_id) ==
    /\ pc = "open"
    /\ req' = [kind |-> "get", id |-> job_id]
    /\ IF job_id \notin DOMAIN jobs
       THEN Finish(HTTPException(404, <<"Job posting not found">>), NoError)
       ELSE Finish(Ok(JobPostingSchema(job_id, jobs[job_id])), NoError)
    /\ UNCHANGED <<jobs, company_id_nullable, session_open, jobs0, deleted>>
    /\ UNCHANGED gen_vars

\* the company check of an update: it runs when the body's company_id
\* reads as a value, and passes when that company exists
CompanyVerified(body) ==
    body.company_id # None => CompanyOf(body.company_id) # None

\* mutant of ApplyUpdate: model_dump() without exclude_unset
ApplyUpdateAllFields(row, body) == [f \in Fields |-> body[f]]

\* model_dump(exclude_unset=True) and the setattr loop
ApplyUpdate(row, body) ==
    [f \in Fields |-> IF f \in body.fields_set THEN body[f] ELSE row[f]]

update_job_posting(job_id, body) ==
    /\ pc = "open"
    /\ req' = [kind |-> "update", id |-> job_id, body |-> body]
    /\ UNCHANGED <<company_id_nullable, session_open, jobs0, deleted>>
    /\ UNCHANGED gen_vars
    /\ IF job_id \notin DOMAIN jobs
       THEN /\ Finish(HTTPException(404, <<"Job posting not found">>), NoError)
            /\ UNCHANGED jobs
       ELSE IF ~CompanyVerified(body)
       THEN /\ Finish(HTTPException(404, <<"Company not found">>), NoError)
            /\ UNCHANGED jobs
       ELSE LET row == ApplyUpdate(jobs[job_id], body)
                rows == [jobs EXCEPT ![job_id] = row]
            IN \E outcome \in CommitRefresh(rows) :
                  \/ /\ outcome = "ok"
                     /\ jobs' = rows
                     /\ Finish(Ok(JobPostingSchema(job_id, row)), NoError)
                  \/ /\ outcome = "commit_error"
                     /\ UNCHANGED jobs
                     /\ Finish(Unhandled, [step |-> "commit", text |-> "OperationalError"])
                  \/ /\ outcome = "refresh_error"
                     /\ jobs' = rows
                     /\ Finish(Unhandled, [step |-> "refresh", text |-> "OperationalError"])

delete_job_posting(job_id) ==
    /\ pc = "open"
    /\ req' = [kind |-> "delete", id |-> job_id]
    /\ UNCHANGED <<company_id_nullable, session_open, jobs0>>
    /\ UNCHANGED gen_vars
    /\ IF job_id \notin DOMAIN jobs
       THEN /\ Finish(HTTPException(404, <<"Job posting not found">>), NoError)
            /\ UNCHANGED <<jobs, deleted>>
       ELSE LET rows == WithoutRow(jobs, job_id)
            IN \E outcome \in Commit(rows) :
                  \/ /\ outcome = "ok"
                     /\ jobs' = rows
                     /\ deleted' = deleted \cup {job_id}
                     /\ Finish(Ok(<<"Job posting deleted successfully">>), NoError)
                  \/ /\ outcome = "commit_error"
                     /\ UNCHANGED <<jobs, deleted>>
                     /\ Finish(Unhandled, [step |-> "commit", text |-> "OperationalError"])

(***************************************************************************)
(* Job description generation.                                             *)
(***************************************************************************)
\* The argument fragments the stream may carry.  Concatenated in order,
\* LBRACE DESCRIPTION_A RBRACE is the payload {"description": "A"}.
LBRACE == "{"
DESCRIPTION_A == "\"description\": \"A\""
RBRACE == "}"
DIGIT == "1"
Fragments == {LBRACE, DESCRIPTION_A, RBRACE, DIGIT}

\* a chunk of the stream: its function_call.arguments, or None when the chunk
\* has no function_call or no arguments
Chunks == {None} \cup {Some(f) : f \in Fragments}

\* mutant of Accumulate: the fragment is put in front of the buffer
AccumulateInFront(buffer, chunk) == IF chunk # None THEN chunk \o buffer ELSE buffer

\* the loop body: full_description += args_chunk when the chunk carries one
Accumulate(buffer, chunk) == IF chunk # None THEN buffer \o chunk ELSE buffer

\* mutant of json_loads: json.loads(full_description or "{}")
json_loads_default(buffer) ==
    IF buffer = <<LBRACE, DESCRIPTION_A, RBRACE>>
        THEN [type |-> "object", data |-> [description |-> "A"]]
    ELSE IF buffer = <<LBRACE, RBRACE>> \/ buffer = <<>>
        THEN [type |-> "object", data |-> <<>>]
    ELSE IF \A i \in DOMAIN buffer : buffer[i] = DIGIT
        THEN [type |-> "int", data |-> Len(buffer)]
    ELSE [type |-> "JSONDecodeError", data |-> <<>>]

\* json.loads(full_description): an object with or without the description
\* key, a number, or a JSONDecodeError
json_loads(buffer) ==
    IF buffer = <<LBRACE, DESCRIPTION_A, RBRACE>>
        THEN [type |-> "object", data |-> [description |-> "A"]]
    ELSE IF buffer = <<LBRACE, RBRACE>>
        THEN [type |-> "object", data |-> <<>>]
    ELSE IF buffer # <<>> /\ \A i \in DOMAIN buffer : buffer[i] = DIGIT
        THEN [type |-> "int", data |-> Len(buffer)]
    ELSE [type |-> "JSONDecodeError", data |-> <<>>]

\* description_data.get("description", "")
get_description(data) ==
    IF "description" \in DOMAIN data THEN data.description ELSE ""

\* mutant of GenerationFailure: the detail leaves the error text out
GenerationFailureNoText(e) ==
    HTTPException(500, <<"Failed to generate job description">>)

\* the except clause around the call, the stream, the parse and the save:
\* log, and answer 500 with the error text in the detail
GenerationFailure(e) ==
    HTTPException(500, <<"Failed to generate job description: ", e>>)

Except(step, e) == Finish(GenerationFailure(e), [step |-> step, text |-> e])

\* mutant of generate_lookup: the company check is missing
generate_lookup_job_only(id) ==
    /\ pc = "open"
    /\ req' = [kind |-> "generate", id |-> id]
    /\ UNCHANGED <<jobs, company_id_nullable, session_open, jobs0, deleted>>
    /\ UNCHANGED <<prompt, full_description, description, chunks, called>>
    /\ IF id \notin DOMAIN jobs
       THEN /\ Finish(HTTPException(404, <<"Job posting not found">>), NoError)
            /\ UNCHANGED job
       ELSE /\ job' = Some(id)
            /\ pc' = "prompt"
            /\ UNCHANGED <<resp, error>>

\* the posting and its company are looked up before anything else
generate_lookup(id) ==
    /\ pc = "open"
    /\ req' = [kind |-> "generate", id |-> id]
    /\ UNCHANGED <<jobs, company_id_nullable, session_open, jobs0, deleted>>
    /\ UNCHANGED <<prompt, full_description, description, chunks, called>>
    /\ IF id \notin DOMAIN jobs
       THEN /\ Finish(HTTPException(404, <<"Job posting not found">>), NoError)
            /\ UNCHANGED job
       ELSE IF CompanyOf(jobs[id].company_id) = None
       THEN /\ Finish(HTTPException(404, <<"Associated company not found">>), NoError)
            /\ UNCHANGED job
       ELSE /\ job' = Some(id)
            /\ pc' = "prompt"
            /\ UNCHANGED <<resp, error>>

\* the prompt, from the posting's title, its company and the joined tools
generate_prompt(required_tools) ==
    /\ pc = "prompt"
    /\ prompt' = Some([title |-> jobs[job[1]].title,
                       company |-> CompanyOf(jobs[job[1]].company_id),
                       tools |-> required_tools])
    /\ pc' = "call"
    /\ UNCHANGED <<jobs, company_id_nullable, session_open, req, resp, error,
                   jobs0, deleted>>
    /\ UNCHANGED <<job, full_description, description, chunks, called>>

\* openai_client.chat.completions.create(..., stream=True): the stream, or
\* an error of the call
generate_call ==
    /\ pc = "call"
    /\ called' = TRUE
    /\ prompt' = None
    /\ UNCHANGED <<jobs, company_id_nullable, session_open, req, jobs0, deleted>>
    /\ UNCHANGED <<job, full_description, description, chunks>>
    /\ \/ /\ pc' = "stream"
          /\ UNCHANGED <<resp, error>>
       \/ Except("call", "Connection error.")

\* mutant of generate_chunk: the text so far is saved on every turn
generate_chunk_persisting(chunk) ==
    /\ pc = "stream"
    /\ Len(chunks) < MaxChunks
    /\ chunks' = Append(chunks, chunk)
    /\ full_description' = Accumulate(full_description, chunk)
    /\ jobs' = [jobs EXCEPT ![job[1]].description = Some("partial")]
    /\ UNCHANGED <<company_id_nullable, pc, session_open, req, resp, error,
                   jobs0, deleted>>
    /\ UNCHANGED <<job, prompt, description, called>>

\* one turn of the loop over the stream
generate_chunk(chunk) ==
    /\ pc = "stream"
    /\ Len(chunks) < MaxChunks
    /\ chunks' = Append(chunks, chunk)
    /\ full_description' = Accumulate(full_description, chunk)
    /\ UNCHANGED <<jobs, company_id_nullable, pc, session_open, req, resp, error,
                   jobs0, deleted>>
    /\ UNCHANGED <<job, prompt, description, called>>

\* the stream raises instead of delivering its next chunk
generate_stream_error ==
    /\ pc = "stream"
    /\ Except("stream", "Connection error.")
    /\ UNCHANGED <<jobs, company_id_nullable, session_open, req, jobs0, deleted>>
    /\ UNCHANGED gen_vars

\* the stream ends: the buffer is parsed and the description extracted
generate_parse ==
    /\ pc = "stream"
    /\ UNCHANGED <<jobs, company_id_nullable, session_open, req, jobs0, deleted>>
    /\ UNCHANGED <<job, prompt, full_description, chunks, called>>
    /\ LET description_data == json_loads(full_description)
       IN IF description_data.type = "JSONDecodeError"
          THEN /\ Except("parse", "Expecting value")
               /\ UNCHANGED description
          ELSE IF description_data.type # "object"
          THEN /\ Except("parse", "'int' object has no attribute 'get'")
               /\ UNCHANGED description
          ELSE /\ description' = Some(get_description(description_data.data))
               /\ pc' = "save"
               /\ UNCHANGED <<resp, error>>

\* job.description = description, commit, refresh, and the response
generate_save ==
    /\ pc = "save"
    /\ UNCHANGED <<company_id_nullable, session_open, req, jobs0, deleted>>
    /\ UNCHANGED gen_vars
    /\ LET rows == [jobs EXCEPT ![job[1]].description = description]
       IN \E outcome \in CommitRefresh(rows) :
             \/ /\ outcome = "ok"
                /\ jobs' = rows
                /\ Finish(Ok([job_id |-> job[1], description |-> description[1]]),
                          NoError)
             \/ /\ outcome = "commit_error"
                /\ UNCHANGED jobs
                /\ Except("commit", "OperationalError")
             \/ /\ outcome = "refresh_error"
                /\ jobs' = rows
                /\ Except("refresh", "OperationalError")

Next ==
    \/ Acquire
    \/ Release
    \/ \E body \in JobPostingCreate : create_job_posting(body)
    \/ \E skip \in 0..MaxSkip, limit \in {0, 1, DefaultLimit} : read_job_postings(skip, limit)
    \/ \E job_id \in RequestJobIds : read_job_posting(job_id)
    \/ \E job_id \in RequestJobIds, body \in JobPostingUpdate : update_job_posting(job_id, body)
    \/ \E job_id \in RequestJobIds : delete_job_posting(job_id)
    \/ \E id \in RequestJobIds : generate_lookup(id)
    \/ \E required_tools \in ToolLists : generate_prompt(required_tools)
    \/ generate_call
    \/ \E chunk \in Chunks : generate_chunk(chunk)
    \/ generate_stream_error
    \/ generate_parse
    \/ generate_save

Spec == Init /\ [][Next]_vars

(***************************************************************************)
(* Properties.                                                             *)
(***************************************************************************)
RequestDone(kind) == pc = "exit" /\ req.kind = kind

\* the fragments of a chunk sequence, joined in the order of arrival
RECURSIVE Concatenation(_)
Concatenation(cs) ==
    IF cs = <<>> THEN <<>> ELSE Head(cs) \o Concatenation(Tail(cs))

PayloadA == <<LBRACE, DESCRIPTION_A, RBRACE>>
EmptyObject == <<LBRACE, RBRACE>>

FailedGenerationPersistsNothing ==
    /\ pc \in {"prompt", "call", "stream", "save"} => jobs = jobs0
    /\ (RequestDone("generate") /\ error.step \in {"call", "stream", "parse", "commit"}) =>
          /\ resp.status = 500
          /\ jobs = jobs0

FailedGenerationWitness ==
    /\ RequestDone("generate")
    /\ error.step = "parse"
    /\ full_description = <<LBRACE, DESCRIPTION_A>>
    /\ resp.status = 500
    /\ jobs[req.id].description = Some("")

\* C4: a request answered with 404 leaves the persisted postings and all
\* their fields unchanged.
NotFoundChangesNothing ==
    (pc = "exit" /\ resp.status = 404) => jobs = jobs0

NotFoundWitness ==
    /\ RequestDone("update")
    /\ resp.status = 404
    /\ req.id \in DOMAIN jobs
    /\ req.body.fields_set = {"title", "company_id"}
    /\ req.body.title # jobs[req.id].title

\* C5: a successful update sets exactly the fields its body carries to the
\* values carried, and changes no other field and no other posting.
UpdateSetsOnlySuppliedFields ==
    (RequestDone("update") /\ resp.status = 200) =>
        /\ req.id \in DOMAIN jobs0
        /\ DOMAIN jobs = DOMAIN jobs0
        /\ \A i \in DOMAIN jobs : \A f \in Fields :
              jobs[i][f] = IF i = req.id /\ f \in req.body.fields_set
                           THEN req.body[f] ELSE jobs0[i][f]

UpdateTitleOnlyWitness ==
    /\ RequestDone("update")
    /\ resp.status = 200
    /\ req.body.fields_set = {"title"}
    /\ jobs[req.id].title # jobs0[req.id].title
    /\ jobs[req.id].description = Some("A")
    /\ DOMAIN jobs = JobIds

\* C6: the external API is invoked only after the posting and its company
\* were both found; a generation on a missing posting, or on a posting
\* whose company cannot be resolved, is answered 404 without invoking it.
ExternalCallOnlyAfterLookup ==
    /\ called =>
          /\ req.kind = "generate"
          /\ req.id \in DOMAIN jobs0
          /\ CompanyOf(jobs0[req.id].company_id) # None
    /\ (RequestDone("generate") /\ resp.status = 404) => ~called
    /\ (RequestDone("generate")
            /\ (req.id \notin DOMAIN jobs0 \/ CompanyOf(jobs0[req.id].company_id) = None))
          => resp.status = 404

UnresolvedCompanyWitness ==
    /\ RequestDone("generate")
    /\ resp.status = 404
    /\ req.id \in DOMAIN jobs
    /\ jobs[req.id].company_id = None
    /\ ~called

\* C7: the buffer is the fragments received, joined in arrival order; while
\* the stream is being read nothing is parsed or persisted; and a stream
\* whose fragments join to the payload with description "A" ends, when no
\* step fails, with "A" stored on the posting and returned with its id.
StreamJoinedInOrderThenSaved ==
    /\ full_description = Concatenation(chunks)
    /\ pc = "stream" => (description = None /\ jobs = jobs0)
    /\ (RequestDone("generate") /\ error = NoError /\ Concatenation(chunks) = PayloadA) =>
          /\ resp.status = 200
          /\ resp.body = [job_id |-> req.id, description |-> "A"]
          /\ jobs = [jobs0 EXCEPT ![req.id].description = Some("A")]

StreamSavedWitness ==
    /\ RequestDone("generate")
    /\ resp.status = 200
    /\ chunks = <<Some(LBRACE), Some(DESCRIPTION_A), Some(RBRACE)>>
    /\ jobs0[req.id].description = Some("")
    /\ jobs[req.id].description = Some("A")

\* C8: once an id is deleted, and until a create, every get, update,
\* delete and generation on it is answered 404 and no list returns it.
DeletedStaysNotFound ==
    [][(pc = "open" /\ pc' # "open") =>
          /\ (req'.kind \in {"get", "update", "delete", "generate"} /\ req'.id \in deleted) =>
                (pc' = "exit" /\ resp'.status = 404)
          /\ req'.kind = "list" =>
                \A i \in DOMAIN resp'.body : resp'.body[i].id \notin deleted]_vars

DeletedWitness ==
    /\ RequestDone("generate")
    /\ req.id \in deleted
    /\ resp.status = 404
    /\ jobs # <<>>

\* C9: the session is open exactly while a request is in flight, and when a
\* handler has ended, whatever its outcome, the release that closes the
\* session is the step that follows.
SessionClosedOnCompletion ==
    /\ session_open <=> pc # "idle"
    /\ pc = "exit" => ENABLED Release

SessionWitness ==
    /\ pc = "exit"
    /\ resp.uncaught
    /\ session_open

\* C10: a stream that joins to an object without the description key ends
\* in success with the empty string stored and returned; a stream that
\* ends without any fragment ends in a 500 with the rows unchanged.
MissingKeyStoresEmptyText ==
    /\ (RequestDone("generate") /\ error = NoError /\ Concatenation(chunks) = EmptyObject) =>
          /\ resp.status = 200
          /\ resp.body = [job_id |-> req.id, description |-> ""]
          /\ jobs = [jobs0 EXCEPT ![req.id].description = Some("")]
    /\ (RequestDone("generate") /\ called /\ error.step \notin {"call", "stream"}
            /\ Concatenation(chunks) = <<>>) =>
          /\ resp.status = 500
          /\ error.step = "parse"
          /\ jobs = jobs0

MissingKeyWitness ==
    /\ RequestDone("generate")
    /\ resp.status = 200
    /\ chunks = <<Some(LBRACE), None, Some(RBRACE)>>
    /\ jobs0[req.id].description = Some("A")
    /\ jobs[req.id].description = Some("")

EmptyStreamWitness ==
    /\ RequestDone("generate")
    /\ resp.status = 500
    /\ chunks = <<None, None>>
    /\ error.step = "parse"

====
